---- MODULE Spec2Model ----
(***************************************************************************)
(* Model of src/main.py: a Telegram bot that stores per-user channel       *)
(* configurations in SQLite (tables channels, songs) and relays uploaded   *)
(* audio into a configured channel.                                        *)
(*                                                                         *)
(* Every handler is a coroutine.  A handler is split into steps at its     *)
(* await points: one step is one SQL statement executed by db_execute /    *)
(* db_query_* (each statement runs on its own connection and commits, so   *)
(* it is atomic), or one synchronous segment of the coroutine that touches *)
(* the process-wide maps awaiting_logo / pending_audio.  Segments that     *)
(* touch no shared state (argument parsing, building a reply) are folded   *)
(* into the neighbouring step.                                             *)
(*                                                                         *)
(* The steps are operators on the record St of the program's state; the    *)
(* actions apply them.  Spec runs every handler to completion in one       *)
(* action: updates are processed one at a time, as they are by             *)
(* Application.builder().build() without concurrent_updates (main.py:344). *)
(* SpecConc lets up to MaxTasks handlers interleave at their await points. *)
(***************************************************************************)
EXTENDS Integers, Sequences, FiniteSets, TLC

\* ------------------------------------------------------------------ bounds
MaxUpdates == 3      \* handler invocations in one behaviour of Spec
MaxConcUpdates == 2  \* handler invocations in one behaviour of SpecConc
MaxChannels == 2     \* rows of table channels
MaxUploads == 2      \* audio uploads in one behaviour
MaxTasks == 2        \* handlers in flight under SpecConc

\* ------------------------------------------------------------ input values
Users == {1, 2}                  \* update.effective_user.id
ChanIds == {"@a", "@b"}          \* args[0] of /addchannel
Photos == {"p1"}                 \* bytes of an uploaded photo
Errors == {"Forbidden: bot is not a member"}   \* str(e) of a failed send_audio

NULL == "NULL"                   \* Python None / SQL NULL (no input equals it)

\* decimal numerals: Digits[i] is f"{i}", and int(Digits[i]) = i
Digits == <<"1", "2", "3", "4", "5", "6", "7", "8", "9">>

ToStr(i) == Digits[i]

ParseInt_Lenient(s) ==
  IF \E i \in 1..Len(Digits) : Digits[i] = s
    THEN [ok |-> TRUE, val |-> CHOOSE i \in 1..Len(Digits) : Digits[i] = s]
    ELSE [ok |-> TRUE, val |-> 0]

\* int(s): ok is FALSE where Python raises ValueError
ParseInt(s) ==
  IF \E i \in 1..Len(Digits) : Digits[i] = s
    THEN [ok |-> TRUE, val |-> CHOOSE i \in 1..Len(Digits) : Digits[i] = s]
    ELSE [ok |-> FALSE, val |-> 0]

\* " ".join(ws)
RECURSIVE Join(_)
Join(ws) ==
  IF ws = <<>> THEN ""
  ELSE IF Len(ws) = 1 THEN ws[1]
  ELSE ws[1] \o " " \o Join(Tail(ws))

\* context.args of the commands that take a record id
IdTokens == {"1", "2", "9", "x"}

AddArgs ==
  {<<>>} \cup {<<c>> : c \in ChanIds} \cup {<<c, "n1">> : c \in ChanIds}

IdArgs == {<<>>} \cup {<<d>> : d \in IdTokens}

NameArgs ==
  {<<>>} \cup {<<d>> : d \in IdTokens} \cup {<<d, "n2", "x2">> : d \in IdTokens}

CaptionArgs ==
  {<<>>} \cup {<<d>> : d \in IdTokens} \cup {<<d, "c1">> : d \in IdTokens}

\* query.data split at the first ":"
CallbackData == {<<"post", d>> : d \in IdTokens} \cup {<<"noop">>}

\* update.message.audio / voice / document of an upload that passed the
\* filter AUDIO | VOICE | Document.AUDIO (main.py:355)
AudioMsgs ==
  { [kind |-> "audio", file_name |-> "f1.mp3", title |-> "t1"],
    [kind |-> "voice", file_name |-> NULL, title |-> NULL] }

\* ------------------------------------------------------- Python truthiness
\* "x or y" on Optional[str]
Truthy(x) == x # NULL /\ x # ""

OrElse(x, y) == IF Truthy(x) THEN x ELSE y

\* file_name = getattr(m, "file_name", None) or getattr(m, "title", None) or "track"
FileNameOf(m) == OrElse(OrElse(m.file_name, m.title), "track")

\* getattr(m, "title", file_name): only an Audio object has the attribute,
\* and there it may be None
TitleOf(m) == IF m.kind = "audio" THEN m.title ELSE FileNameOf(m)

\* resize_image_bytes: the stored logo is the re-encoded thumbnail, never the
\* uploaded bytes themselves
resize_image_bytes(p) == "jpeg300(" \o p \o ")"

\* ------------------------------------------------------ table channels
\* A row is channels[id]: AUTOINCREMENT ids start at 1 and no statement of
\* the program deletes a row.
NewRow(u, c, name, caption, logo, isdef) ==
  [user |-> u, chan |-> c, name |-> name, caption |-> caption, logo |-> logo,
   is_default |-> isdef]

NoRec ==
  [id |-> 0, user |-> 0, chan |-> NULL, name |-> NULL, caption |-> NULL,
   logo |-> NULL, is_default |-> 0]

RecOf(ch, id) ==
  [id |-> id, user |-> ch[id].user, chan |-> ch[id].chan, name |-> ch[id].name,
   caption |-> ch[id].caption, logo |-> ch[id].logo,
   is_default |-> ch[id].is_default]

\* COALESCE(x, old)
Coalesce(x, old) == IF x # NULL THEN x ELSE old

\* SELECT id FROM channels WHERE user_id=? AND channel_id=?   (0: no row)
SelectId(ch, u, c) ==
  IF \E i \in 1..Len(ch) : ch[i].user = u /\ ch[i].chan = c
    THEN CHOOSE i \in 1..Len(ch) : ch[i].user = u /\ ch[i].chan = c
    ELSE 0

UpdateCoalesce_Overwrite(ch, id, name, caption) ==
  [i \in 1..Len(ch) |->
     IF i = id THEN [ch[i] EXCEPT !.name = name, !.caption = caption] ELSE ch[i]]

\* UPDATE channels SET cafe_name = COALESCE(?, cafe_name),
\*                     caption = COALESCE(?, caption) WHERE id=?
UpdateCoalesce(ch, id, name, caption) ==
  [i \in 1..Len(ch) |->
     IF i = id
       THEN [ch[i] EXCEPT !.name = Coalesce(name, @),
                          !.caption = Coalesce(caption, @)]
       ELSE ch[i]]

UniqueViolation_NoConstraint(ch, u, c) == FALSE

\* UNIQUE(user_id, channel_id): would the INSERT be rejected?
UniqueViolation(ch, u, c) == SelectId(ch, u, c) # 0

\* INSERT INTO channels(...) VALUES(...)
InsertChannel(ch, row) == Append(ch, row)

\* UPDATE channels SET is_default=0 WHERE user_id=?
ClearDefault(ch, u) ==
  [i \in 1..Len(ch) |->
     IF ch[i].user = u THEN [ch[i] EXCEPT !.is_default = 0] ELSE ch[i]]

\* UPDATE channels SET is_default=1 WHERE id=?
MarkDefault(ch, id) ==
  [i \in 1..Len(ch) |->
     IF i = id THEN [ch[i] EXCEPT !.is_default = 1] ELSE ch[i]]

UpdateName_NoWhere(ch, id, name) ==
  [i \in 1..Len(ch) |-> [ch[i] EXCEPT !.name = name]]

\* UPDATE channels SET cafe_name=? WHERE id=?
UpdateName(ch, id, name) ==
  [i \in 1..Len(ch) |-> IF i = id THEN [ch[i] EXCEPT !.name = name] ELSE ch[i]]

\* UPDATE channels SET caption=? WHERE id=?
UpdateCaption(ch, id, cap) ==
  [i \in 1..Len(ch) |->
     IF i = id THEN [ch[i] EXCEPT !.caption = cap] ELSE ch[i]]

\* UPDATE channels SET logo=? WHERE id=?
UpdateLogo(ch, id, logo) ==
  [i \in 1..Len(ch) |-> IF i = id THEN [ch[i] EXCEPT !.logo = logo] ELSE ch[i]]

\* SELECT ... FROM channels WHERE id=?
get_channel_by_dbid(ch, id) ==
  IF id \in 1..Len(ch) THEN RecOf(ch, id) ELSE NoRec

\* SELECT ... FROM channels WHERE user_id=?   (the ids, in rowid order)
RECURSIVE RowsFrom(_, _, _)
RowsFrom(ch, u, i) ==
  IF i > Len(ch) THEN <<>>
  ELSE IF ch[i].user = u THEN <<i>> \o RowsFrom(ch, u, i + 1)
  ELSE RowsFrom(ch, u, i + 1)

list_channels_of_user(ch, u) == RowsFrom(ch, u, 1)

\* SELECT ... FROM channels WHERE user_id=? AND is_default=1 (fetchone)
DefaultIds(ch, u) ==
  {i \in 1..Len(ch) : ch[i].user = u /\ ch[i].is_default = 1}

record_song_Overwrite(sg, u, dbid, title, file_name) ==
  <<[user |-> u, channel_db_id |-> dbid, title |-> title, file_name |-> file_name]>>

\* INSERT INTO songs(user_id, channel_db_id, title, file_name)
record_song(sg, u, dbid, title, file_name) ==
  Append(sg, [user |-> u, channel_db_id |-> dbid, title |-> title,
              file_name |-> file_name])

\* ------------------------------------------------------------------ state
VARIABLES
  channels,       \* table channels: sequence of rows, channels[id]
  songs,          \* table songs: sequence of rows in insertion order
  awaiting_logo,  \* awaiting_logo: user -> record id (0: no entry)
  pending_audio,  \* pending_audio: user -> stored upload (NoPend: no entry)
  sent,           \* every send_audio call made so far, in order
  nUploads,       \* uploads stored so far (numbers the buffers)
  uploader,       \* uploader[b]: the sender whose upload buffer b holds
  tasks,          \* handlers in flight: slot -> locals and position
  outbox,         \* what the last action sent to users (replies, edits, raises)
  nUpdates        \* handler invocations so far

vars ==
  <<channels, songs, awaiting_logo, pending_audio, sent, nUploads, uploader,
    tasks, outbox, nUpdates>>

Slots == 1..MaxTasks

\* the state the handlers read and write
St ==
  [channels |-> channels, songs |-> songs, awaiting_logo |-> awaiting_logo,
   pending_audio |-> pending_audio, sent |-> sent, nUploads |-> nUploads,
   uploader |-> uploader]

\* a stored upload: buf is the identity of the BytesIO holding the bytes
NoPend == [buf |-> 0, title |-> NULL, file_name |-> NULL]

\* the locals of a handler; pc is its position, "idle" once it returned
Idle ==
  [kind |-> "idle", pc |-> "idle", user |-> 0, dbid |-> 0, chan |-> NULL,
   name |-> NULL, rows |-> <<>>, rec |-> NoRec, pend |-> NoPend,
   photo |-> NULL, buf |-> 0]

\* one message leaving the bot: via is "reply" (reply_text), "send"
\* (bot.send_message), "edit" (edit_message_text) or "raise" (the handler
\* ended with an uncaught exception, which the library logs)
Msg(to, via, text, arg, buttons) ==
  [to |-> to, via |-> via, text |-> text, arg |-> arg, buttons |-> buttons]

Reply(u, text) == Msg(u, "reply", text, "", {})

\* the outcome of a step: the state after it, the handler's locals after it
\* and the messages it sent
Return(st, msgs) == [st |-> st, k |-> Idle, out |-> msgs]

Await(st, k) == [st |-> st, k |-> k, out |-> <<>>]

\* ----------------------------------------------------------- /addchannel
\* cmd_addchannel up to the SELECT of add_or_update_channel
cmd_addchannel(st, u, args) ==
  IF args = <<>>
    THEN Return(st, <<Reply(u, "Usage: /addchannel")>>)
    ELSE LET existing == SelectId(st.channels, u, args[1])
         IN Await(st, [Idle EXCEPT !.kind = "addchannel",
                                   !.pc = IF existing # 0 THEN "add_update" ELSE "add_insert",
                                   !.user = u, !.chan = args[1],
                                   !.name = IF Len(args) > 1 THEN Join(Tail(args)) ELSE NULL,
                                   !.dbid = existing])

AddedReply(u, rowid) ==
  Msg(u, "reply", "channel added/updated db_id=", ToStr(rowid), {})

\* existing row: the UPDATE with COALESCE (caption, logo_bytes and
\* make_default are never passed by the caller), then the reply
add_update(st, k) ==
  Return([st EXCEPT !.channels = UpdateCoalesce(@, k.dbid, k.name, NULL)],
         <<AddedReply(k.user, k.dbid)>>)

\* no row seen by the SELECT: the INSERT with is_default = 0; a row added in
\* between makes the INSERT raise sqlite3.IntegrityError
add_insert(st, k) ==
  IF UniqueViolation(st.channels, k.user, k.chan)
    THEN Return(st, <<Msg(k.user, "raise", "IntegrityError", "", {})>>)
    ELSE Return([st EXCEPT !.channels =
                   InsertChannel(@, NewRow(k.user, k.chan, k.name, NULL, NULL, 0))],
                <<AddedReply(k.user, Len(st.channels) + 1)>>)

\* ----------------------------------------------------------- /setdefault
\* cmd_setdefault up to the first statement of set_default_channel
cmd_setdefault(st, u, args) ==
  IF args = <<>> THEN Return(st, <<Reply(u, "Usage: /setdefault")>>)
  ELSE IF ~ParseInt(args[1]).ok THEN Return(st, <<Reply(u, "invalid id")>>)
  ELSE Await([st EXCEPT !.channels = ClearDefault(@, u)],
             [Idle EXCEPT !.kind = "setdefault", !.pc = "sd_mark", !.user = u,
                          !.dbid = ParseInt(args[1]).val])

\* the second statement of set_default_channel: WHERE id=? only
sd_mark(st, k) ==
  Return([st EXCEPT !.channels = MarkDefault(@, k.dbid)],
         <<Reply(k.user, "default channel set")>>)

\* ----------------------------------------------- /setname and /setcaption
\* cmd_setname: one statement (WHERE id=? only), so one step
cmd_setname(st, u, args) ==
  IF Len(args) < 2 THEN Return(st, <<Reply(u, "Usage: /setname")>>)
  ELSE IF ~ParseInt(args[1]).ok THEN Return(st, <<Reply(u, "invalid id")>>)
  ELSE Return([st EXCEPT !.channels =
                 UpdateName(@, ParseInt(args[1]).val, Join(Tail(args)))],
              <<Reply(u, "name set")>>)

\* cmd_setcaption: one statement (WHERE id=? only), so one step
cmd_setcaption(st, u, args) ==
  IF Len(args) < 2 THEN Return(st, <<Reply(u, "Usage: /setcaption")>>)
  ELSE IF ~ParseInt(args[1]).ok THEN Return(st, <<Reply(u, "invalid id")>>)
  ELSE Return([st EXCEPT !.channels =
                 UpdateCaption(@, ParseInt(args[1]).val, Join(Tail(args)))],
              <<Reply(u, "caption set")>>)

\* ------------------------------------------------------ /setlogo and photo
\* "if not rec or rec[1] != user_id"
LogoDenied(rec, u) == rec = NoRec \/ rec.user # u

\* cmd_setlogo up to the SELECT of get_channel_by_dbid
cmd_setlogo(st, u, args) ==
  IF args = <<>> THEN Return(st, <<Reply(u, "Usage: /setlogo")>>)
  ELSE IF ~ParseInt(args[1]).ok THEN Return(st, <<Reply(u, "invalid id")>>)
  ELSE Await(st, [Idle EXCEPT !.kind = "setlogo", !.pc = "sl_check", !.user = u,
                              !.dbid = ParseInt(args[1]).val,
                              !.rec = get_channel_by_dbid(st.channels, ParseInt(args[1]).val)])

\* the ownership check and awaiting_logo[user_id] = dbid
sl_check(st, k) ==
  IF LogoDenied(k.rec, k.user)
    THEN Return(st, <<Reply(k.user, "channel not found or not yours")>>)
    ELSE Return([st EXCEPT !.awaiting_logo[k.user] = k.dbid],
                <<Reply(k.user, "now send a photo")>>)

photo_handler_KeepEntry(st, u, p) ==
  IF st.awaiting_logo[u] # 0
    THEN Await(st,
               [Idle EXCEPT !.kind = "photo", !.pc = "ph_update", !.user = u,
                            !.dbid = st.awaiting_logo[u], !.photo = p])
    ELSE Return(st, <<Reply(u, "use /setlogo first")>>)

\* photo_handler up to the download: the entry is popped before the first
\* await
photo_handler(st, u, p) ==
  IF st.awaiting_logo[u] # 0
    THEN Await([st EXCEPT !.awaiting_logo[u] = 0],
               [Idle EXCEPT !.kind = "photo", !.pc = "ph_update", !.user = u,
                            !.dbid = st.awaiting_logo[u], !.photo = p])
    ELSE Return(st, <<Reply(u, "use /setlogo first")>>)

\* the resize and the UPDATE of the logo
ph_update(st, k) ==
  Return([st EXCEPT !.channels = UpdateLogo(@, k.dbid, resize_image_bytes(k.photo))],
         <<Reply(k.user, "logo saved")>>)

\* --------------------------------------------------------------- audio flow
\* "if not rows" / "if len(rows) == 1" / else
NoChannel_Never(rows) == FALSE

NoChannel(rows) == Len(rows) = 0

SingleChannel_AtLeastOne(rows) == Len(rows) >= 1

SingleChannel(rows) == Len(rows) = 1

StorePending_NotKeyed(pa, u, buf, m) ==
  [v \in Users |-> [buf |-> buf, title |-> TitleOf(m), file_name |-> FileNameOf(m)]]

StorePending_KeepFirst(pa, u, buf, m) ==
  IF pa[u] # NoPend THEN pa
  ELSE [pa EXCEPT ![u] = [buf |-> buf, title |-> TitleOf(m), file_name |-> FileNameOf(m)]]

\* pending_audio[user_id] = {"buf": buf, "title": ..., "file_name": ...}
StorePending(pa, u, buf, m) ==
  [pa EXCEPT ![u] = [buf |-> buf, title |-> TitleOf(m), file_name |-> FileNameOf(m)]]

PopPending_Keep(pa, u) == pa

\* pending_audio.pop(user_id, None): the map afterwards
PopPending(pa, u) == [pa EXCEPT ![u] = NoPend]

\* audio_handler up to list_channels_of_user: the download, then the store
audio_handler(st, u, m) ==
  Await([st EXCEPT !.pending_audio = StorePending(@, u, st.nUploads + 1, m),
                   !.nUploads = @ + 1,
                   !.uploader = Append(@, u)],
        [Idle EXCEPT !.kind = "audio", !.pc = "au_list", !.user = u,
                     !.buf = st.nUploads + 1])

\* the SELECT of list_channels_of_user
au_list(st, k) ==
  Await(st, [k EXCEPT !.pc = "au_branch",
                      !.rows = list_channels_of_user(st.channels, k.user)])

do_post_pop_NoCheck(st, k, dbid) ==
  Await([st EXCEPT !.pending_audio = PopPending(@, k.user)],
        [k EXCEPT !.pc = "post_get", !.dbid = dbid,
                  !.pend = st.pending_audio[k.user]])

\* do_post_audio_for_user_channel up to get_channel_by_dbid: the pop
do_post_pop(st, k, dbid) ==
  IF st.pending_audio[k.user] = NoPend
    THEN Return(st, <<Msg(k.user, "send", "error: audio file missing", "", {})>>)
    ELSE Await([st EXCEPT !.pending_audio = PopPending(@, k.user)],
               [k EXCEPT !.pc = "post_get", !.dbid = dbid,
                         !.pend = st.pending_audio[k.user]])

\* the selection prompt: one button per row, callback_data "post:<id>"
Prompt(u, rows) ==
  Msg(u, "reply", "which channel?", "", {rows[i] : i \in 1..Len(rows)})

\* audio_handler after the rows arrived: the three-way branch
au_branch(st, k) ==
  IF NoChannel(k.rows)
    THEN Return(st, <<Reply(k.user, "add a channel first: /addchannel")>>)
  ELSE IF SingleChannel(k.rows) THEN do_post_pop(st, k, k.rows[1])
  ELSE Return(st, <<Prompt(k.user, k.rows)>>)

\* callback_query_handler up to get_channel_by_dbid: no await lies between
\* the membership test and the pop
callback_query_handler(st, u, data) ==
  IF data[1] # "post" THEN Return(st, <<>>)
  ELSE IF ~ParseInt(data[2]).ok
    THEN Return(st, <<Msg(u, "edit", "invalid data", "", {})>>)
  ELSE IF st.pending_audio[u] = NoPend
    THEN Return(st, <<Msg(u, "edit", "audio file not found, send it again", "", {})>>)
  ELSE do_post_pop(st, [Idle EXCEPT !.kind = "callback", !.user = u],
                   ParseInt(data[2]).val)

\* the SELECT of get_channel_by_dbid
post_get(st, k) ==
  Await(st, [k EXCEPT !.pc = "post_send",
                      !.rec = get_channel_by_dbid(st.channels, k.dbid)])

\* callback_query_handler after do_post_audio_for_user_channel returned
AfterPost(k) ==
  IF k.kind = "callback"
    THEN <<Msg(k.user, "edit", "sending to channel...", "", {})>>
    ELSE <<>>

SendAudioCall_NoThumb(k, ok) ==
  [buf |-> k.pend.buf, by |-> k.user, dbid |-> k.dbid, chat |-> k.rec.chan,
   title |-> k.pend.title, performer |-> k.rec.chan, thumb |-> NULL,
   caption |-> OrElse(k.rec.caption, ""), ok |-> ok, origin |-> k.kind]

\* the arguments of context.bot.send_audio, and whether the call returned
SendAudioCall(k, ok) ==
  [buf |-> k.pend.buf, by |-> k.user, dbid |-> k.dbid, chat |-> k.rec.chan,
   title |-> k.pend.title, performer |-> k.rec.chan,
   thumb |-> IF Truthy(k.rec.logo) THEN k.rec.logo ELSE NULL,
   caption |-> OrElse(k.rec.caption, ""), ok |-> ok, origin |-> k.kind]

\* the except branch: the message relayed to the sender
SendFailed(k, e) == Msg(k.user, "send", "sending to channel failed:", e, {})

post_send_IgnoreError(st, k, res) ==
  IF k.rec = NoRec
    THEN Return(st, <<Msg(k.user, "send", "selected channel not found", "", {})>>
                      \o AfterPost(k))
  ELSE Await([st EXCEPT !.sent = Append(@, SendAudioCall(k, res = "ok"))],
             [k EXCEPT !.pc = "post_record"])

\* "if not rec", then send_audio inside try: res is "ok" or the text of the
\* exception send_audio raised
post_send(st, k, res) ==
  IF k.rec = NoRec
    THEN Return(st, <<Msg(k.user, "send", "selected channel not found", "", {})>>
                      \o AfterPost(k))
  ELSE IF res = "ok"
    THEN Await([st EXCEPT !.sent = Append(@, SendAudioCall(k, TRUE))],
               [k EXCEPT !.pc = "post_record"])
  ELSE Return([st EXCEPT !.sent = Append(@, SendAudioCall(k, FALSE))],
              <<SendFailed(k, res)>> \o AfterPost(k))

post_record_NoSong(st, k) ==
  Return(st, <<Msg(k.user, "send", "published in", k.rec.chan, {})>> \o AfterPost(k))

\* record_song, then the confirmation
post_record(st, k) ==
  Return([st EXCEPT !.songs = record_song(@, k.user, k.dbid, k.pend.title, k.pend.file_name)],
         <<Msg(k.user, "send", "published in", k.rec.chan, {})>> \o AfterPost(k))

\* --------------------------------------------------------------- scheduling
Results == {"ok"} \cup Errors

\* the next step of a handler that is in flight
TaskStep(st, k, res) ==
  CASE k.pc = "add_update" -> add_update(st, k)
    [] k.pc = "add_insert" -> add_insert(st, k)
    [] k.pc = "sd_mark" -> sd_mark(st, k)
    [] k.pc = "sl_check" -> sl_check(st, k)
    [] k.pc = "ph_update" -> ph_update(st, k)
    [] k.pc = "au_list" -> au_list(st, k)
    [] k.pc = "au_branch" -> au_branch(st, k)
    [] k.pc = "post_get" -> post_get(st, k)
    [] k.pc = "post_send" -> post_send(st, k, res)
    [] k.pc = "post_record" -> post_record(st, k)

\* a handler run to its return without any other handler in between
RECURSIVE Run(_, _)
Run(r, res) ==
  IF r.k.pc = "idle" THEN r
  ELSE LET n == TaskStep(r.st, r.k, res)
       IN Run([st |-> n.st, k |-> n.k, out |-> r.out \o n.out], res)

\* The database file outlives the process (init_db creates the tables only
\* if they are missing), so a run starts from the rows earlier runs left:
\* here none, or rows as plain /addchannel commands create them.
InitTables ==
  { <<>>,
    <<NewRow(1, "@a", NULL, NULL, NULL, 0), NewRow(1, "@b", NULL, NULL, NULL, 0)>>,
    <<NewRow(1, "@a", NULL, NULL, NULL, 0), NewRow(2, "@a", NULL, NULL, NULL, 0)>> }

Init ==
  /\ channels \in InitTables
  /\ songs = <<>>
  /\ awaiting_logo = [u \in Users |-> 0]
  /\ pending_audio = [u \in Users |-> NoPend]
  /\ sent = <<>>
  /\ nUploads = 0
  /\ uploader = <<>>
  /\ tasks = [t \in Slots |-> Idle]
  /\ outbox = <<>>
  /\ nUpdates = 0

Store(st) ==
  /\ channels' = st.channels
  /\ songs' = st.songs
  /\ awaiting_logo' = st.awaiting_logo
  /\ pending_audio' = st.pending_audio
  /\ sent' = st.sent
  /\ nUploads' = st.nUploads
  /\ uploader' = st.uploader

\* rows of table channels stay within the bound
Fits(st) == Len(st.channels) <= MaxChannels

\* ------------------------------------------- Spec: one handler at a time
\* the whole handler, from the update to its return
Handle(r0, res) ==
  LET r == Run(r0, res) IN
  /\ nUpdates < MaxUpdates
  /\ Fits(r.st)
  /\ r.st.nUploads <= MaxUploads
  /\ Store(r.st)
  /\ outbox' = r.out
  /\ nUpdates' = nUpdates + 1
  /\ UNCHANGED tasks

OnAddChannel(u, args) == Handle(cmd_addchannel(St, u, args), "ok")

OnSetDefault(u, args) == Handle(cmd_setdefault(St, u, args), "ok")

OnSetName(u, args) == Handle(cmd_setname(St, u, args), "ok")

OnSetCaption(u, args) == Handle(cmd_setcaption(St, u, args), "ok")

OnSetLogo(u, args) == Handle(cmd_setlogo(St, u, args), "ok")

OnPhoto(u, p) == Handle(photo_handler(St, u, p), "ok")

OnAudio(u, m, res) == Handle(audio_handler(St, u, m), res)

OnCallback(u, data, res) == Handle(callback_query_handler(St, u, data), res)

\* /start, /help and /listchannels write nothing and are left out.
Next ==
  \/ \E u \in Users, a \in AddArgs : OnAddChannel(u, a)
  \/ \E u \in Users, a \in IdArgs : OnSetDefault(u, a)
  \/ \E u \in Users, a \in NameArgs : OnSetName(u, a)
  \/ \E u \in Users, a \in CaptionArgs : OnSetCaption(u, a)
  \/ \E u \in Users, a \in IdArgs : OnSetLogo(u, a)
  \/ \E u \in Users, p \in Photos : OnPhoto(u, p)
  \/ \E u \in Users, m \in AudioMsgs, res \in Results : OnAudio(u, m, res)
  \/ \E u \in Users, d \in CallbackData, res \in Results : OnCallback(u, d, res)

Spec == Init /\ [][Next]_vars

\* ------------------------- SpecConc: handlers interleave at their awaits
Active == {t \in Slots : tasks[t].pc # "idle"}

FreeSlot == CHOOSE t \in Slots : tasks[t].pc = "idle" /\ \A s \in Slots : tasks[s].pc = "idle" => t <= s

\* INSERTs that handlers in flight are about to run
Inserting(tk) == Cardinality({t \in Slots : tk[t].pc = "add_insert"})

\* an update arrives: the handler runs up to its first await
Dispatch(r0) ==
  /\ nUpdates < MaxConcUpdates
  /\ Cardinality(Active) < MaxTasks
  /\ r0.st.nUploads <= MaxUploads
  /\ Store(r0.st)
  /\ tasks' = [tasks EXCEPT ![FreeSlot] = r0.k]
  /\ Len(channels) + Inserting(tasks') <= MaxChannels
  /\ outbox' = r0.out
  /\ nUpdates' = nUpdates + 1

\* the handler in slot t resumes at pc and runs to its next await
Resume(t, pc, res) ==
  /\ tasks[t].pc = pc
  /\ LET n == TaskStep(St, tasks[t], res) IN
       /\ Store(n.st)
       /\ tasks' = [tasks EXCEPT ![t] = n.k]
       /\ outbox' = n.out
  /\ UNCHANGED nUpdates

NextConc ==
  \/ \E u \in Users, a \in AddArgs : Dispatch(cmd_addchannel(St, u, a))
  \/ \E u \in Users, a \in IdArgs : Dispatch(cmd_setdefault(St, u, a))
  \/ \E u \in Users, a \in NameArgs : Dispatch(cmd_setname(St, u, a))
  \/ \E u \in Users, a \in CaptionArgs : Dispatch(cmd_setcaption(St, u, a))
  \/ \E u \in Users, a \in IdArgs : Dispatch(cmd_setlogo(St, u, a))
  \/ \E u \in Users, p \in Photos : Dispatch(photo_handler(St, u, p))
  \/ \E u \in Users, m \in AudioMsgs : Dispatch(audio_handler(St, u, m))
  \/ \E u \in Users, d \in CallbackData : Dispatch(callback_query_handler(St, u, d))
  \/ \E t \in Slots : Resume(t, "add_update", "ok")
  \/ \E t \in Slots : Resume(t, "add_insert", "ok")
  \/ \E t \in Slots : Resume(t, "sd_mark", "ok")
  \/ \E t \in Slots : Resume(t, "sl_check", "ok")
  \/ \E t \in Slots : Resume(t, "ph_update", "ok")
  \/ \E t \in Slots : Resume(t, "au_list", "ok")
  \/ \E t \in Slots : Resume(t, "au_branch", "ok")
  \/ \E t \in Slots : Resume(t, "post_get", "ok")
  \/ \E t \in Slots, res \in Results : Resume(t, "post_send", res)
  \/ \E t \in Slots : Resume(t, "post_record", "ok")

SpecConc == Init /\ [][NextConc]_vars

\* ================================================================== claims
\* the handlers applied to the current state, run to their return
RunAudio(u, m, res) == Run(audio_handler(St, u, m), res)

RunCallback(u, d, res) == Run(callback_query_handler(St, u, d), res)

Last(q) == q[Len(q)]

\* the dispatcher hands the next update to its handler in this state: what a
\* handler does is stated for the states it runs in
Serving == nUpdates < MaxUpdates

HasPrompt(out) == \E i \in 1..Len(out) : out[i].buttons # {}

\* ------------------------------------------------------------------- C1
\* the outcome r of an upload by sender u whose one channel is record d: one
\* send_audio of this upload to that channel within the handler run, and no
\* prompt
C1_Single(r, u, d) ==
  /\ Len(r.st.sent) = Len(sent) + 1
  /\ SubSeq(r.st.sent, 1, Len(sent)) = sent
  /\ Last(r.st.sent).buf = nUploads + 1
  /\ Last(r.st.sent).by = u
  /\ Last(r.st.sent).dbid = d
  /\ Last(r.st.sent).chat = channels[d].chan
  /\ ~HasPrompt(r.out)

\* the outcome r of an upload by sender u with two or more channels: the
\* prompt with one button per channel, nothing sent, the upload kept pending
C1_Multi(r, u, rows) ==
  /\ r.out = <<Prompt(u, rows)>>
  /\ r.out[1].buttons = {i \in 1..Len(channels) : channels[i].user = u}
  /\ r.st.sent = sent
  /\ r.st.pending_audio[u].buf = nUploads + 1

\* the outcome r of a selection of record d by sender u with a pending
\* upload: one send_audio of that upload to the channel of the record
C1_Select(r, u, d) ==
  /\ Len(r.st.sent) = Len(sent) + 1
  /\ SubSeq(r.st.sent, 1, Len(sent)) = sent
  /\ Last(r.st.sent).buf = pending_audio[u].buf
  /\ Last(r.st.sent).by = u
  /\ Last(r.st.sent).chat = channels[d].chan

\* every upload takes the branch of its sender's channel count
C1_Branch(u, rows) ==
  /\ Len(rows) = 1 =>
       \A m \in AudioMsgs, res \in Results : C1_Single(RunAudio(u, m, res), u, rows[1])
  /\ Len(rows) >= 2 =>
       \A m \in AudioMsgs, res \in Results : C1_Multi(RunAudio(u, m, res), u, rows)
  /\ pending_audio[u] # NoPend =>
       \A d \in 1..Len(channels), res \in Results :
         C1_Select(RunCallback(u, <<"post", ToStr(d)>>, res), u, d)

\* a step that sends audio to a channel is the upload handler of a sender
\* with exactly one channel sending the upload it just stored, or a selection
\* callback of the sender whose pending upload is sent
C1_OnlyThen ==
  sent' # sent =>
    /\ Len(sent') = Len(sent) + 1
    /\ SubSeq(sent', 1, Len(sent)) = sent
    /\ LET e == Last(sent') IN
         \/ /\ e.origin = "audio"
            /\ nUploads' = nUploads + 1
            /\ e.buf = nUploads'
            /\ list_channels_of_user(channels, e.by) = <<e.dbid>>
         \/ /\ e.origin = "callback"
            /\ e.buf # 0
            /\ e.buf = pending_audio[e.by].buf
            /\ nUploads' = nUploads

\* C1: with exactly one configured channel the upload handler relays the
\* upload to that channel in the same run, without a prompt; with two or more
\* it sends the selection prompt and relays nothing, and the upload is sent
\* only by a later selection callback of the same sender, to the channel of
\* the selected record.
C1_RelayBranch ==
  /\ [](Serving => \A u \in Users : C1_Branch(u, list_channels_of_user(channels, u)))
  /\ [][C1_OnlyThen]_vars

\* a sender with two channels was prompted, selected, and the upload went to
\* the selected channel
C1_Witness ==
  /\ sent # <<>>
  /\ Last(sent).origin = "callback"
  /\ Last(sent).ok
  /\ Len(list_channels_of_user(channels, Last(sent).by)) >= 2
  /\ channels[Last(sent).dbid].user = Last(sent).by
  /\ outbox # <<>>
  /\ Last(outbox).text = "sending to channel..."

\* ------------------------------------------------------------------- C2
\* C2: in every reachable state every owner has at most one record carrying
\* the default flag.
C2_OneDefaultPerOwner ==
  \A u \in Users : Cardinality(DefaultIds(channels, u)) <= 1

\* ------------------------------------------------------------------- C3
\* the sender of the command an action handled: every command replies to it
Sender(out) == out[1].to

\* C3: a command changes a field of a channel record only if the record's
\* owner is the sender of the command.
C3_OwnerOnly ==
  [][\A i \in 1..Len(channels) :
       channels'[i] # channels[i] =>
         outbox' # <<>> /\ channels[i].user = Sender(outbox')]_vars

\* ------------------------------------------------------------------- C4
NotFoundEdit(u) == Msg(u, "edit", "audio file not found, send it again", "", {})

\* record ids a selection may carry: those of the rows, and one of no row
SelectIds == (1..Len(channels)) \cup {9}

\* a selection by a sender with a pending upload takes the entry whatever
\* the outcome (sent, send failed, record not found); without a pending
\* upload it changes nothing and answers "not found"
C4_Selection(u) ==
  \A d \in SelectIds, res \in Results :
    IF pending_audio[u] # NoPend
      THEN RunCallback(u, <<"post", ToStr(d)>>, res).st.pending_audio[u] = NoPend
      ELSE RunCallback(u, <<"post", ToStr(d)>>, res) = Return(St, <<NotFoundEdit(u)>>)

\* the relay of the upload handler (one channel) takes the entry as well
C4_Direct(u) ==
  Len(list_channels_of_user(channels, u)) = 1 =>
    \A m \in AudioMsgs, res \in Results :
      RunAudio(u, m, res).st.pending_audio[u] = NoPend

\* C4: a pending upload is cleared on first consumption (send succeeded,
\* send failed, or record not found), so no stored upload is sent twice, and
\* a selection without a pending upload relays nothing and answers that the
\* audio file was not found.
C4_ClearedOnConsumption ==
  /\ \A i, j \in 1..Len(sent) : i # j => sent[i].buf # sent[j].buf
  /\ \A u \in Users, i \in 1..Len(sent) :
       pending_audio[u] # NoPend => sent[i].buf # pending_audio[u].buf
  /\ Serving => \A u \in Users : C4_Selection(u) /\ C4_Direct(u)

\* an upload was relayed on selection, and a second selection was answered
\* "not found"
C4_Witness ==
  /\ outbox # <<>>
  /\ outbox = <<NotFoundEdit(Sender(outbox))>>
  /\ pending_audio[Sender(outbox)] = NoPend
  /\ \E i \in 1..Len(sent) :
       sent[i].by = Sender(outbox) /\ sent[i].origin = "callback"

\* ------------------------------------------------------------------- C5
\* no two rows with the same (user_id, channel_id)
UniquePairs(ch) ==
  \A i, j \in 1..Len(ch) :
    i # j => ~(ch[i].user = ch[j].user /\ ch[i].chan = ch[j].chan)

\* the /addchannel handler in slot t returns in this step
AddReturns(t) == tasks[t].kind = "addchannel" /\ tasks'[t].pc = "idle"

\* it replies with the id of the row of its pair, and the table has as many
\* rows of that pair as before or one where there was none
ReportsId(t) ==
  LET k == tasks[t] IN
  /\ UniquePairs(channels')
  /\ SelectId(channels', k.user, k.chan) # 0
  /\ outbox' = <<AddedReply(k.user, SelectId(channels', k.user, k.chan))>>
  /\ SelectId(channels, k.user, k.chan) # 0 => Len(channels') = Len(channels)

\* C5 as stated: the pair is unique in every state, and every /addchannel
\* handler, interleaved or not, ends by reporting the id of the one row of
\* its pair.
C5_AlwaysReportsId ==
  /\ []UniquePairs(channels)
  /\ [][\A t \in Slots : AddReturns(t) => ReportsId(t)]_vars

\* C5 as amended: the pair is unique in every state; a handler whose SELECT
\* saw the row updates it and reports its id; a handler whose SELECT saw no
\* row inserts one and reports its id, unless a row of the pair was inserted
\* in between: then the INSERT is rejected, the table is left as it is and
\* the handler ends with the IntegrityError and no reply.
C5_UniqueOrRejected ==
  /\ []UniquePairs(channels)
  /\ [][\A t \in Slots :
          AddReturns(t) =>
            \/ /\ tasks[t].pc = "add_update" \/ SelectId(channels, tasks[t].user, tasks[t].chan) = 0
               /\ ReportsId(t)
            \/ /\ tasks[t].pc = "add_insert"
               /\ SelectId(channels, tasks[t].user, tasks[t].chan) # 0
               /\ channels' = channels
               /\ outbox' = <<Msg(tasks[t].user, "raise", "IntegrityError", "", {})>>]_vars

\* two handlers for the same new pair interleaved: one row, one rejection
C5_Witness ==
  /\ outbox # <<>>
  /\ outbox[1].via = "raise"
  /\ outbox[1].text = "IntegrityError"
  /\ \E c \in ChanIds : SelectId(channels, Sender(outbox), c) # 0
  /\ UniquePairs(channels)

\* ------------------------------------------------------------------- C6
SendMsgs(out) == {i \in 1..Len(out) : out[i].via = "send"}

\* the outcome of a relay whose send_audio raised e: one send_audio call, one
\* message to the sender carrying e, no song row
FailedRelay(r, u, e) ==
  /\ Len(r.st.sent) = Len(sent) + 1
  /\ SubSeq(r.st.sent, 1, Len(sent)) = sent
  /\ ~Last(r.st.sent).ok
  /\ r.st.songs = songs
  /\ Cardinality(SendMsgs(r.out)) = 1
  /\ \A i \in SendMsgs(r.out) :
       r.out[i].to = u /\ r.out[i].arg = e /\ r.out[i].text = "sending to channel failed:"

\* C6: if send_audio raises, the relay step sends the sender one message with
\* the exception's text, does not call send_audio again and appends no song
\* row.
C6_SendFailure ==
  Serving => \A u \in Users :
    /\ Len(list_channels_of_user(channels, u)) = 1 =>
         \A m \in AudioMsgs, e \in Errors : FailedRelay(RunAudio(u, m, e), u, e)
    /\ pending_audio[u] # NoPend =>
         \A d \in 1..Len(channels), e \in Errors :
           FailedRelay(RunCallback(u, <<"post", ToStr(d)>>, e), u, e)

\* a send failed: the attempt is logged, the sender was told, no song row
C6_Witness ==
  /\ sent # <<>>
  /\ ~Last(sent).ok
  /\ songs = <<>>
  /\ \E i \in 1..Len(outbox) :
       outbox[i].via = "send" /\ outbox[i].arg \in Errors /\ outbox[i].to = Last(sent).by

\* ------------------------------------------------------------------- C7
\* the text a command carries after the record id, written out
TextOf(args) ==
  IF Len(args) = 2 THEN args[2] ELSE args[2] \o " " \o args[3]

\* command arguments naming record d with a one-word or a two-word text
TextArgs(d) == {<<ToStr(d), "v1">>, <<ToStr(d), "v1", "v2">>}

\* /setname d v and /setcaption d v on an existing record: the record read
\* back holds v in that field, its other fields and every other record are
\* as before
C7_ReadBack(u, d, args) ==
  /\ cmd_setname(St, u, args).st.channels = [channels EXCEPT ![d].name = TextOf(args)]
  /\ cmd_setcaption(St, u, args).st.channels = [channels EXCEPT ![d].caption = TextOf(args)]
  /\ get_channel_by_dbid(cmd_setname(St, u, args).st.channels, d).name = TextOf(args)
  /\ get_channel_by_dbid(cmd_setcaption(St, u, args).st.channels, d).caption = TextOf(args)

\* a name changes only in a /setname or in an /addchannel that reports the
\* record; a caption changes only in a /setcaption
C7_Frame ==
  \A i \in 1..Len(channels) :
    /\ channels'[i].name # channels[i].name =>
         /\ outbox' # <<>>
         /\ \/ outbox'[1].text = "name set"
            \/ outbox'[1] = AddedReply(channels[i].user, i)
    /\ channels'[i].caption # channels[i].caption =>
         outbox' # <<>> /\ outbox'[1].text = "caption set"

\* C7: after /setname (/setcaption) with value v on an existing record the
\* record read back holds v as name (caption), and it keeps v under every
\* other operation, until a command writes that field of that record again.
C7_ConfiguredValueKept ==
  /\ [](Serving => \A u \in Users, d \in 1..Len(channels) :
                     \A args \in TextArgs(d) : C7_ReadBack(u, d, args))
  /\ [][C7_Frame]_vars

\* a name was set, a caption was set after it, and the name is still there
C7_Witness ==
  /\ \E i \in 1..Len(channels) :
       channels[i].name = "n2 x2" /\ channels[i].caption = "c1"
  /\ outbox # <<>>
  /\ outbox[1].text = "caption set"

\* ------------------------------------------------------------------- C8
\* C8: an upload by an owner who has a record carrying the default flag is
\* relayed to that record's channel without a selection.
C8_DefaultChosen ==
  [][(nUploads' = nUploads + 1 /\ outbox' # <<>>
        /\ DefaultIds(channels, Sender(outbox')) # {}) =>
       /\ sent' # sent
       /\ Last(sent').dbid \in DefaultIds(channels, Sender(outbox'))]_vars

\* ------------------------------------------------------------------- C9
Unchanged(r, u, text) == r = Return(St, <<Reply(u, text)>>)

\* C9: a command with no arguments, too few arguments or a record id that is
\* no integer replies with the fixed usage or invalid-id message and leaves
\* the channel store, the song log, the awaiting-logo map and the
\* pending-upload map as they were.
C9_InvalidArguments ==
  Serving => \A u \in Users :
    /\ Unchanged(Run(cmd_addchannel(St, u, <<>>), "ok"), u, "Usage: /addchannel")
    /\ Unchanged(Run(cmd_setdefault(St, u, <<>>), "ok"), u, "Usage: /setdefault")
    /\ Unchanged(Run(cmd_setlogo(St, u, <<>>), "ok"), u, "Usage: /setlogo")
    /\ Unchanged(Run(cmd_setname(St, u, <<>>), "ok"), u, "Usage: /setname")
    /\ Unchanged(Run(cmd_setcaption(St, u, <<>>), "ok"), u, "Usage: /setcaption")
    /\ \A d \in IdTokens :
         /\ Unchanged(Run(cmd_setname(St, u, <<d>>), "ok"), u, "Usage: /setname")
         /\ Unchanged(Run(cmd_setcaption(St, u, <<d>>), "ok"), u, "Usage: /setcaption")
    /\ \A x \in {"x", "@a", "1.5"} :
         /\ Unchanged(Run(cmd_setdefault(St, u, <<x>>), "ok"), u, "invalid id")
         /\ Unchanged(Run(cmd_setlogo(St, u, <<x>>), "ok"), u, "invalid id")
         /\ Unchanged(Run(cmd_setname(St, u, <<x, "v1">>), "ok"), u, "invalid id")
         /\ Unchanged(Run(cmd_setcaption(St, u, <<x, "v1">>), "ok"), u, "invalid id")

\* a command with a non-integer id was answered "invalid id" by a bot whose
\* store holds a default record of the sender
C9_Witness ==
  /\ outbox # <<>>
  /\ outbox = <<Reply(Sender(outbox), "invalid id")>>
  /\ DefaultIds(channels, Sender(outbox)) # {}

\* ------------------------------------------------------------------ C10
\* C10: an upload by a sender with no configured channel is answered with
\* the fixed prompt to add a channel first; nothing is sent to a channel, no
\* song row is appended and the channel store is unchanged.
C10_NoChannel ==
  Serving => \A u \in Users :
    list_channels_of_user(channels, u) = <<>> =>
      \A m \in AudioMsgs, res \in Results :
        LET r == RunAudio(u, m, res) IN
        /\ r.out = <<Reply(u, "add a channel first: /addchannel")>>
        /\ r.st.sent = sent
        /\ r.st.songs = songs
        /\ r.st.channels = channels

\* a sender without a channel uploaded and was told to add one, in a bot
\* that has channels of another owner
C10_Witness ==
  /\ outbox # <<>>
  /\ outbox = <<Reply(Sender(outbox), "add a channel first: /addchannel")>>
  /\ list_channels_of_user(channels, Sender(outbox)) = <<>>
  /\ pending_audio[Sender(outbox)] # NoPend
  /\ channels # <<>>

\* ------------------------------------------------------------------ C11
\* the song log of the next state starts with the log of this one
SongsKept == Len(songs') >= Len(songs) /\ SubSeq(songs', 1, Len(songs)) = songs

\* C11: the song log is append-only: every step leaves every song row in
\* place with its owner, channel reference, title and file name; rows are
\* only added at the end.
C11_AppendOnly == [][SongsKept]_vars

\* two relays were recorded one after the other, with different titles
C11_Witness ==
  /\ Len(songs) = 2
  /\ songs[1].title # songs[2].title
  /\ Len(sent) = 2

\* ------------------------------------------------------------------ C12
\* the entry that holds upload m, stored as buffer b, and nothing else
EntryOf(b, m) == [buf |-> b, title |-> TitleOf(m), file_name |-> FileNameOf(m)]

\* the outcome r of an upload m by sender u who still has an earlier upload
\* pending and no single channel to relay to at once: the entry holds the
\* new upload only, nothing was sent, and a selection of any record then
\* sends the new upload
C12_Second(r, u, m) ==
  /\ r.st.pending_audio[u] = EntryOf(nUploads + 1, m)
  /\ r.st.pending_audio[u].buf # pending_audio[u].buf
  /\ r.st.sent = sent
  /\ \A d \in 1..Len(channels), res \in Results :
       LET r2 == Run(callback_query_handler(r.st, u, <<"post", ToStr(d)>>), res)
       IN /\ Len(r2.st.sent) = Len(sent) + 1
          /\ Last(r2.st.sent).buf = nUploads + 1
          /\ Last(r2.st.sent).title = TitleOf(m)
          /\ r2.st.pending_audio[u] = NoPend

C12_Overwrite(u) ==
  (pending_audio[u] # NoPend /\ Len(list_channels_of_user(channels, u)) # 1) =>
    \A m \in AudioMsgs, res \in Results : C12_Second(RunAudio(u, m, res), u, m)

\* an entry is replaced only by the upload of this step or by no entry, and
\* whatever a step sends was pending before it or was uploaded in it: an
\* upload that left the map unsent is not sent later
C12_NoWayBack ==
  /\ \A u \in Users :
       pending_audio'[u] # pending_audio[u] =>
         \/ pending_audio'[u] = NoPend
         \/ nUploads' = nUploads + 1 /\ pending_audio'[u].buf = nUploads'
  /\ \A i \in 1..Len(sent') :
       i > Len(sent) =>
         \/ \E u \in Users : pending_audio[u] # NoPend /\ pending_audio[u].buf = sent'[i].buf
         \/ nUploads' = nUploads + 1 /\ sent'[i].buf = nUploads'

\* C12: a new upload overwrites the owner's pending entry: after a second
\* upload before any selection the entry holds the second upload only, a
\* later selection relays the second upload, and the first is never relayed.
C12_OverwrittenByNewUpload ==
  /\ [](Serving => \A u \in Users : C12_Overwrite(u))
  /\ [][C12_NoWayBack]_vars

\* two uploads by an owner of two channels, then a selection: the second
\* upload was sent, the first was not
C12_Witness ==
  /\ nUploads = 2
  /\ Len(sent) = 1
  /\ sent[1].buf = 2
  /\ sent[1].origin = "callback"
  /\ Len(list_channels_of_user(channels, sent[1].by)) >= 2
  /\ pending_audio = [u \in Users |-> NoPend]

\* ------------------------------------------------------------------ C13
\* the outcome r of a relay to record d: the send_audio call goes to the
\* channel identifier of row d, names it as performer, and carries the
\* caption of the row (empty text for none) and its logo (none for none)
C13_Embedded(r, d) ==
  LET e == Last(r.st.sent) IN
  /\ Len(r.st.sent) = Len(sent) + 1
  /\ e.dbid = d
  /\ e.chat = channels[d].chan
  /\ e.performer = channels[d].chan
  /\ e.caption = (IF channels[d].caption = NULL THEN "" ELSE channels[d].caption)
  /\ e.thumb = channels[d].logo

C13_Relay(u, rows) ==
  /\ Len(rows) = 1 =>
       \A m \in AudioMsgs, res \in Results : C13_Embedded(RunAudio(u, m, res), rows[1])
  /\ pending_audio[u] # NoPend =>
       \A d \in 1..Len(channels), res \in Results :
         C13_Embedded(RunCallback(u, <<"post", ToStr(d)>>, res), d)

\* C13: a relay sends the audio to the channel identifier of the selected
\* record, with that record's caption (empty text when none is configured),
\* its logo as thumbnail (none when no logo is stored) and the channel
\* identifier as performer.
C13_MetadataEmbedded ==
  Serving => \A u \in Users : C13_Relay(u, list_channels_of_user(channels, u))

\* a logo was stored for a record without a caption, and an upload was
\* sent to its channel with the logo as thumbnail and an empty caption
C13_Witness ==
  /\ sent # <<>>
  /\ Last(sent).ok
  /\ Last(sent).thumb = resize_image_bytes("p1")
  /\ Last(sent).caption = ""
  /\ Last(sent).performer = channels[Last(sent).dbid].chan

\* ------------------------------------------------------------------ C14
\* the upload handler in slot t, of an owner of one channel, is at pc and
\* takes its next step
AudioStep(t, pc) ==
  /\ tasks[t].kind = "audio"
  /\ tasks[t].pc = pc
  /\ tasks'[t] # tasks[t]

MissingMsg(u) == Msg(u, "send", "error: audio file missing", "", {})

\* C14 as stated: under any interleaving, the upload handler of an owner of
\* one channel goes on to relay the upload it stored itself, and its one
\* send_audio call carries that upload.
C14_OwnUploadRelayed ==
  [][\A t \in Slots :
       /\ (AudioStep(t, "au_branch") /\ Len(tasks[t].rows) = 1) =>
            /\ tasks'[t].pc = "post_get"
            /\ tasks'[t].pend.buf = tasks[t].buf
       /\ AudioStep(t, "post_send") =>
            /\ Len(sent') = Len(sent) + 1
            /\ Last(sent').buf = tasks[t].buf]_vars

\* while an upload handler waits for the rows, its sender's entry is the
\* upload it stored, a later upload of the same sender, or gone
C14_Entry(t) ==
  LET k == tasks[t] IN
  (k.kind = "audio" /\ k.pc \in {"au_list", "au_branch"}) =>
    \/ pending_audio[k.user] = NoPend
    \/ /\ pending_audio[k.user].buf >= k.buf
       /\ uploader[pending_audio[k.user].buf] = k.user

\* the branch of an owner of one channel: it takes the entry the sender has
\* now and goes on to relay it to that channel, or finds none, relays
\* nothing and tells the sender that the audio file is missing
C14_Branch(t) ==
  LET k == tasks[t] IN
  (AudioStep(t, "au_branch") /\ Len(k.rows) = 1) =>
    IF pending_audio[k.user] # NoPend
      THEN /\ tasks'[t].pc = "post_get"
           /\ tasks'[t].pend = pending_audio[k.user]
           /\ tasks'[t].dbid = k.rows[1]
           /\ pending_audio'[k.user] = NoPend
           /\ sent' = sent
      ELSE /\ tasks'[t].pc = "idle"
           /\ outbox' = <<MissingMsg(k.user)>>
           /\ sent' = sent
           /\ pending_audio' = pending_audio

\* the relay makes one send_audio call, with the entry it took
C14_Send(t) ==
  LET k == tasks[t] IN
  AudioStep(t, "post_send") =>
    /\ Len(sent') = Len(sent) + 1
    /\ SubSeq(sent', 1, Len(sent)) = sent
    /\ Last(sent').buf = k.pend.buf
    /\ Last(sent').by = k.user
    /\ Last(sent').dbid = k.rows[1]

\* C14 as amended: the upload handler of an owner of one channel relays the
\* entry the sender has when the handler reaches the relay: its own upload
\* or a later upload of the sender, once; when another handler of the sender
\* has taken the entry, it relays nothing and answers "audio file missing".
\* No upload is sent twice.
C14_LatestOrMissing ==
  /\ [](\A t \in Slots : C14_Entry(t))
  /\ [](\A i, j \in 1..Len(sent) : i # j => sent[i].buf # sent[j].buf)
  /\ [][\A t \in Slots : C14_Branch(t) /\ C14_Send(t)]_vars

\* two upload handlers of an owner of one channel interleaved: the second
\* upload was sent, the first was not, and one handler answered "missing"
C14_Witness ==
  /\ outbox # <<>>
  /\ outbox = <<MissingMsg(Sender(outbox))>>
  /\ nUploads = 2
  /\ \E i \in 1..Len(sent) : sent[i].buf = 2 /\ sent[i].by = Sender(outbox)
  /\ \A i \in 1..Len(sent) : sent[i].buf # 1
  /\ Len(list_channels_of_user(channels, Sender(outbox))) = 1

\* ------------------------------------------------------------------ C15
\* the step is taken by a handler run for sender u: one that starts in this
\* step or one in flight that resumes
ActsFor(u) ==
  \E t \in Slots :
    /\ tasks'[t] # tasks[t]
    /\ IF tasks[t].pc = "idle" THEN tasks'[t].user = u ELSE tasks[t].user = u

\* every upload that is pending, taken by a handler or sent is held for the
\* sender who made it
C15_OwnUploads ==
  /\ \A u \in Users :
       pending_audio[u] # NoPend => uploader[pending_audio[u].buf] = u
  /\ \A t \in Slots :
       tasks[t].pend # NoPend => uploader[tasks[t].pend.buf] = tasks[t].user
  /\ \A i \in 1..Len(sent) : uploader[sent[i].buf] = sent[i].by

\* C15: under any interleaving of handlers, the audio a relay step sends on
\* behalf of owner u is an upload made by u, and u's pending entry is added,
\* replaced or removed only by a handler run for u.
C15_NoInterference ==
  /\ []C15_OwnUploads
  /\ [][\A u \in Users : pending_audio'[u] # pending_audio[u] => ActsFor(u)]_vars

\* an upload handler of one owner waits with its upload pending while a
\* later upload of the other owner has been sent
C15_Witness ==
  \E t \in Slots :
    /\ tasks[t].kind = "audio"
    /\ tasks[t].pc = "au_list"
    /\ pending_audio[tasks[t].user].buf = tasks[t].buf
    /\ \E i \in 1..Len(sent) :
         sent[i].by # tasks[t].user /\ sent[i].buf > tasks[t].buf

\* ------------------------------------------------------------------ C16
RunPhoto(st, u, p) == Run(photo_handler(st, u, p), "ok")

NoEntryReply(u) == Reply(u, "use /setlogo first")

\* an awaiting-logo entry names a record of the sender it is kept for: only a
\* /setlogo that passed the ownership check creates one
C16_EntryOwned ==
  \A u \in Users :
    awaiting_logo[u] # 0 =>
      awaiting_logo[u] \in 1..Len(channels) /\ channels[awaiting_logo[u]].user = u

\* /setlogo d by u: the entry becomes d when d is a record of u, otherwise
\* nothing changes; no record changes either way
C16_SetLogo(u, d) ==
  LET r == Run(cmd_setlogo(St, u, <<ToStr(d)>>), "ok") IN
  IF d \in 1..Len(channels) /\ channels[d].user = u
    THEN r.st = [St EXCEPT !.awaiting_logo[u] = d]
    ELSE r.st = St

\* a photo by u: with an entry, the logo of the record the entry names
\* becomes the resized photo, nothing else changes in the table, the entry is
\* gone and a second photo changes nothing and is told to use /setlogo
\* first; without an entry, nothing changes and the reply is the same
C16_Photo(u, p) ==
  LET r == RunPhoto(St, u, p) IN
  IF awaiting_logo[u] # 0
    THEN /\ r.st = [St EXCEPT !.channels[awaiting_logo[u]].logo = resize_image_bytes(p),
                              !.awaiting_logo[u] = 0]
         /\ \A p2 \in Photos :
              RunPhoto(r.st, u, p2) = Return(r.st, <<NoEntryReply(u)>>)
    ELSE r = Return(St, <<NoEntryReply(u)>>)

\* a logo changes only in a photo step of the sender whose entry names the
\* record, and an entry changes only in a step of its own sender
C16_Frame ==
  /\ \A i \in 1..Len(channels) :
       channels'[i].logo # channels[i].logo =>
         /\ outbox' = <<Reply(Sender(outbox'), "logo saved")>>
         /\ awaiting_logo[Sender(outbox')] = i
  /\ \A u \in Users :
       awaiting_logo'[u] # awaiting_logo[u] => outbox' # <<>> /\ Sender(outbox') = u

\* C16: a photo from sender u changes a stored logo only if u has an
\* awaiting-logo entry, which only a /setlogo that passed the ownership check
\* creates; it changes only the logo of the record of u's most recent such
\* /setlogo and consumes the entry, so a second photo without a new /setlogo
\* changes no record and is told to use /setlogo first.
C16_LogoOnlyAfterSetLogo ==
  /\ []C16_EntryOwned
  /\ [](Serving => \A u \in Users :
                     /\ \A d \in SelectIds : C16_SetLogo(u, d)
                     /\ \A p \in Photos : C16_Photo(u, p))
  /\ [][C16_Frame]_vars

\* /setlogo, a photo that was stored, and a second photo that was refused
C16_Witness ==
  /\ outbox # <<>>
  /\ outbox = <<NoEntryReply(Sender(outbox))>>
  /\ \E i \in 1..Len(channels) :
       channels[i].logo = resize_image_bytes("p1") /\ channels[i].user = Sender(outbox)
  /\ awaiting_logo[Sender(outbox)] = 0

\* ------------------------------------------------------------------ C17
Succeeded(e) == e.ok

\* the send_audio calls that returned, in order
OkSent == SelectSeq(sent, Succeeded)

\* the song row of pending entry pe relayed by u to record d
SongOf(u, d, pe) ==
  [user |-> u, channel_db_id |-> d, title |-> pe.title, file_name |-> pe.file_name]

\* one song row per successful send, in the same order, naming its sender,
\* record id and title
C17_OnePerSend ==
  /\ Len(songs) = Len(OkSent)
  /\ \A i \in 1..Len(songs) :
       /\ songs[i].user = OkSent[i].by
       /\ songs[i].channel_db_id = OkSent[i].dbid
       /\ songs[i].title = OkSent[i].title

\* a selection of d by u with a pending upload appends the song row of this
\* relay when the record exists and the send succeeds, and none otherwise
C17_Selection(u, d, res) ==
  LET r == RunCallback(u, <<"post", ToStr(d)>>, res) IN
  IF d \in 1..Len(channels) /\ res = "ok"
    THEN r.st.songs = Append(songs, SongOf(u, d, pending_audio[u]))
    ELSE r.st.songs = songs

DefaultSetReply(u) == Reply(u, "default channel set")

\* C18: after /setdefault d has replied with its success message, the
\* sender's records carrying the default flag are exactly the record d, for
\* every integer d.
C18_NamedRecordIsDefault ==
  \A u \in Users, d \in SelectIds :
    LET r == Run(cmd_setdefault(St, u, <<ToStr(d)>>), "ok") IN
    r.out = <<DefaultSetReply(u)>> => DefaultIds(r.st.channels, u) = {d}

\* ------------------------------------------------------------------ C19
RunAdd(u, args) == Run(cmd_addchannel(St, u, args), "ok")

\* /addchannel by u for channel c that u has configured as record id:
\* without a name nothing changes; with a name only the name of record id
\* changes; the reply reports id
C19_Existing(u, c, id) ==
  /\ RunAdd(u, <<c>>) = Return(St, <<AddedReply(u, id)>>)
  /\ \A ws \in {<<"n1">>, <<"n1", "x1">>} :
       RunAdd(u, <<c>> \o ws) =
         Return([St EXCEPT !.channels[id].name = Join(ws)], <<AddedReply(u, id)>>)

\* C19: /addchannel for a pair that is already configured leaves the
\* record's caption, logo and default flag unchanged, leaves its name
\* unchanged when no name is given and replaces only the name when one is
\* given, and leaves every other record unchanged.
C19_AddExistingFrame ==
  Serving => \A u \in Users, c \in ChanIds :
               SelectId(channels, u, c) # 0 => C19_Existing(u, c, SelectId(channels, u, c))

\* a record with a caption was named by a repeated /addchannel and kept the
\* caption
C19_Witness ==
  /\ outbox # <<>>
  /\ \E i \in 1..Len(channels) :
       /\ outbox = <<AddedReply(channels[i].user, i)>>
       /\ channels[i].name = "n1"
       /\ channels[i].caption = "c1"

====
